---- MODULE Spec2Model ----
(***************************************************************************)
(* django-categories: the category tree, the cascading save of the        *)
(* `active` flag, the breadcrumb builders, the admin form validation and  *)
(* the alternate-URL backfill command.                                     *)
(*                                                                         *)
(* The table of categories is `store`, a function from the ids of the     *)
(* rows to the rows.  A row carries the nested-set columns that django-   *)
(* mptt maintains (tree_id, lft, rght) next to the payload.  A model      *)
(* instance in memory is a record of the same shape as a row; an instance *)
(* that was never saved has id = None.                                     *)
(*                                                                         *)
(* A save, an admin action or the backfill command issues a sequence of   *)
(* writes to the table.  The operation is single-threaded, so that        *)
(* sequence is a function of the table at the time of the call; it is     *)
(* computed when the operation begins and then applied one write per      *)
(* step, and a store error may end the operation between any two writes.  *)
(* `op` is the call in progress or just ended, with the table as it was   *)
(* when the call began; `result` is what a query returned.  Both are      *)
(* dropped when control returns to the caller.                             *)
(***************************************************************************)
EXTENDS Integers, Sequences, FiniteSets, TLC

VARIABLES store, impl, op, result

vars == <<store, impl, op, result>>

(* ------------------------------ bounds -------------------------------- *)

MaxNodes == 3

(* ----------------------------- constants ------------------------------ *)

None == 0

Classes == {"CategoryBase", "Category"}

\* The names a category is created with, in collation order.
NameOrder == <<"A", "B", "C", "D">>

Names == {NameOrder[i] : i \in 1..Len(NameOrder)}

NameRank(name) == CHOOSE i \in 1..Len(NameOrder) : NameOrder[i] = name

\* slugify on the names above: lower-cases (the names hold no other
\* character that slugify rewrites, and none is longer than 50).
slugify(name) ==
    CASE name = "A" -> "a"
      [] name = "B" -> "b"
      [] name = "C" -> "c"
      [] name = "D" -> "d"
      [] OTHER -> ""

\* reverse('categories_tree_list')
BasePath == "/categories/"

(* ------------------------- strings and lists -------------------------- *)

RECURSIVE join(_, _)
\* delimiter.join(parts)
join(delimiter, parts) ==
    IF parts = <<>> THEN ""
    ELSE IF Len(parts) = 1 THEN parts[1]
    ELSE parts[1] \o delimiter \o join(delimiter, Tail(parts))

RECURSIVE OrderBy(_)
\* The rows of a set in the order of Meta.ordering = ('tree_id', 'lft').
OrderBy(rows) ==
    IF rows = {} THEN <<>>
    ELSE LET first == CHOOSE r \in rows : \A q \in rows :
                          \/ r.tree_id < q.tree_id
                          \/ r.tree_id = q.tree_id /\ r.lft <= q.lft
         IN <<first>> \o OrderBy(rows \ {first})

Rows(st) == {st[i] : i \in DOMAIN st}

(* ------------------------ the tree store (mptt) ----------------------- *)

\* self.get_descendants(): the rows of the same tree whose lft lies strictly
\* inside the instance's [lft, rght], in tree order.
get_descendants(st, inst) ==
    OrderBy({r \in Rows(st) : /\ r.tree_id = inst.tree_id
                              /\ r.lft >= inst.lft + 1
                              /\ r.lft <= inst.rght - 1})

\* self.get_ancestors(include_self): the rows of the same tree whose
\* [lft, rght] encloses the instance's, root first.
get_ancestors(st, inst, include_self) ==
    OrderBy({r \in Rows(st) : /\ r.tree_id = inst.tree_id
                              /\ \/ r.lft < inst.lft /\ r.rght > inst.rght
                                 \/ include_self /\ r.id = inst.id})

\* item.children.all()
children(st, inst) == {r \in Rows(st) : r.parent = inst.id}

\* The sibling a new node is inserted to the left of under
\* order_insertion_by = 'name': the first sibling whose name is greater.
InsertionTarget(st, inst) ==
    LET later == {r \in Rows(st) : /\ r.parent = inst.parent
                                   /\ NameRank(r.name) > NameRank(inst.name)}
        least == {r \in later : \A q \in later : NameRank(r.name) <= NameRank(q.name)}
    IN IF later = {} THEN None ELSE OrderBy(least)[1].id

MaxTreeId(st) ==
    IF DOMAIN st = {} THEN 0
    ELSE CHOOSE t \in {st[i].tree_id : i \in DOMAIN st} :
             \A i \in DOMAIN st : st[i].tree_id <= t

NewId(st) == Cardinality(DOMAIN st) + 1

\* The insert of a new node: mptt gives it an id and a place in the tree and
\* makes room for it in the nested-set columns of the other rows.
InsertNode(st, inst) ==
    LET id == NewId(st)
        sib == InsertionTarget(st, inst)
    IN IF inst.parent = None
       THEN LET t == IF sib = None THEN MaxTreeId(st) + 1 ELSE st[sib].tree_id
                moved == [i \in DOMAIN st |->
                             IF st[i].tree_id >= t
                             THEN [st[i] EXCEPT !.tree_id = @ + 1]
                             ELSE st[i]]
            IN (id :> [inst EXCEPT !.id = id, !.tree_id = t, !.lft = 1, !.rght = 2])
                   @@ moved
       ELSE LET t == st[inst.parent].tree_id
                at == IF sib = None THEN st[inst.parent].rght ELSE st[sib].lft
                moved == [i \in DOMAIN st |->
                             IF st[i].tree_id = t
                             THEN [st[i] EXCEPT
                                      !.lft = IF @ >= at THEN @ + 2 ELSE @,
                                      !.rght = IF @ >= at THEN @ + 2 ELSE @]
                             ELSE st[i]]
            IN (id :> [inst EXCEPT !.id = id, !.tree_id = t, !.lft = at, !.rght = at + 1])
                   @@ moved

(* ------------------------------ writes -------------------------------- *)

\* One statement sent to the table: the save of one instance (all of its
\* columns), or queryset.update(active = ...) on a set of rows.
SaveWrite(inst) == [kind |-> "save", inst |-> inst, ids |-> {}, active |-> inst.active]

UpdateWrite(ids, active) ==
    [kind |-> "update", inst |-> None, ids |-> ids, active |-> active]

\* The table after one write.
Persist(st, w) ==
    IF w.kind = "update"
    THEN [i \in DOMAIN st |-> IF i \in w.ids THEN [st[i] EXCEPT !.active = w.active]
                              ELSE st[i]]
    ELSE IF w.inst.id = None THEN InsertNode(st, w.inst)
    ELSE [st EXCEPT ![w.inst.id] = w.inst]

RECURSIVE PersistAll(_, _)
PersistAll(st, ws) ==
    IF ws = <<>> THEN st ELSE PersistAll(Persist(st, Head(ws)), Tail(ws))

\* The instance as it is in memory after its save: a new one has its id.
Saved(st, inst) == IF inst.id = None THEN NewId(st) ELSE inst.id

(* ------------------------- CategoryBase.save -------------------------- *)

RECURSIVE CategoryBase_save(_, _)
RECURSIVE CategoryBase_cascade(_, _, _)

\* CategoryBase.save without its loop over the descendants.
SaveWithoutCascade(st, inst) ==
    <<SaveWrite(IF inst.slug = "" THEN [inst EXCEPT !.slug = slugify(inst.name)]
                ELSE inst)>>

\* CategoryBase.save with the loop over the descendants before super().save().
SaveAfterCascade(st, inst) ==
    LET self0 == IF inst.slug = "" THEN [inst EXCEPT !.slug = slugify(inst.name)]
                 ELSE inst
        items == IF inst.id = None THEN <<>> ELSE get_descendants(st, self0)
    IN (IF ~self0.active THEN CategoryBase_cascade(st, items, self0.active) ELSE <<>>)
       \o <<SaveWrite(self0)>>

\* The writes of CategoryBase.save(self) on the table st, in order.
CategoryBase_save(st, inst) ==
    LET self0 == IF inst.slug = "" THEN [inst EXCEPT !.slug = slugify(inst.name)]
                 ELSE inst
        st1 == Persist(st, SaveWrite(self0))
        self == st1[Saved(st, self0)]
    IN <<SaveWrite(self0)>> \o
       (IF ~self.active
        THEN CategoryBase_cascade(st1, get_descendants(st1, self), self.active)
        ELSE <<>>)

\* for item in self.get_descendants(): the items were read before the loop.
CategoryBase_cascade(st, items, active) ==
    IF items = <<>> THEN <<>>
    ELSE LET item == Head(items)
             ws == IF item.active # active
                   THEN CategoryBase_save(st, [item EXCEPT !.active = active])
                   ELSE <<>>
         IN ws \o CategoryBase_cascade(PersistAll(st, ws), Tail(items), active)

(* --------------------------- Category.save ---------------------------- *)

RECURSIVE Category_save(_, _)
RECURSIVE Category_cascade(_, _, _)

\* The writes of Category.save(self) on the table st, in order.  (The
\* thumbnail's width and height, which it also sets, are not modelled.)
Category_save(st, inst) ==
    LET self0 == IF inst.slug = "" THEN [inst EXCEPT !.slug = slugify(inst.name)]
                 ELSE inst
        st1 == Persist(st, SaveWrite(self0))
        self == st1[Saved(st, self0)]
    IN <<SaveWrite(self0)>> \o
       Category_cascade(st1, get_descendants(st1, self), self.active)

Category_cascade(st, items, active) ==
    IF items = <<>> THEN <<>>
    ELSE LET item == Head(items)
             ws == IF item.active # active
                   THEN Category_save(st, [item EXCEPT !.active = active])
                   ELSE <<>>
         IN ws \o Category_cascade(PersistAll(st, ws), Tail(items), active)

\* item.save() on an instance of the class in use.
save(cls, st, inst) ==
    IF cls = "CategoryBase" THEN CategoryBase_save(st, inst) ELSE Category_save(st, inst)

(* ------------------------- the admin actions -------------------------- *)

RECURSIVE deactivate(_, _, _)

\* deactivate writing the item's row and its children's, not through save().
DeactivateRowAndChildren(cls, st, items) ==
    IF items = <<>> THEN <<>>
    ELSE LET item == Head(items)
             ws == IF item.active
                   THEN <<SaveWrite([item EXCEPT !.active = FALSE]),
                          UpdateWrite({c.id : c \in children(st, item)}, FALSE)>>
                   ELSE <<>>
         IN ws \o deactivate(cls, PersistAll(st, ws), Tail(items))

\* CategoryBaseAdmin.deactivate over the selected rows as they were read.
deactivate(cls, st, items) ==
    IF items = <<>> THEN <<>>
    ELSE LET item == Head(items)
             ws == IF item.active
                   THEN LET sv == save(cls, st, [item EXCEPT !.active = FALSE])
                            st1 == PersistAll(st, sv)
                        IN sv \o <<UpdateWrite({c.id : c \in children(st1, item)}, FALSE)>>
                   ELSE <<>>
         IN ws \o deactivate(cls, PersistAll(st, ws), Tail(items))

RECURSIVE activate(_, _, _)
\* CategoryBaseAdmin.activate over the selected rows as they were read.
activate(cls, st, items) ==
    IF items = <<>> THEN <<>>
    ELSE LET item == Head(items)
             sv == save(cls, st, [item EXCEPT !.active = TRUE])
             st1 == PersistAll(st, sv)
             ws == sv \o <<UpdateWrite({c.id : c \in children(st1, item)}, TRUE)>>
         IN ws \o activate(cls, PersistAll(st, ws), Tail(items))

(* ------------------------ the breadcrumb builder ---------------------- *)

\* CategoryBase.generate_unicode_name: the join is over `ancestors`.
CategoryBase_generate_unicode_name(st, self) ==
    LET ancestors == get_ancestors(st, self, FALSE)
        ancestors_list ==
            IF /\ Len(ancestors) > 0
               /\ ~(ancestors[1].slug = "magazine")
               /\ ~(ancestors[1].slug = "nextgov-categories")
            THEN Tail(ancestors) ELSE ancestors
    IN join(" > ", [i \in 1..Len(ancestors) |-> ancestors[i].name] \o <<self.name>>)

\* Category.generate_unicode_name: the join is over `ancestors_list`.
Category_generate_unicode_name(st, self) ==
    LET ancestors == get_ancestors(st, self, FALSE)
        ancestors_list ==
            IF /\ Len(ancestors) > 0
               /\ ~(ancestors[1].slug = "magazine")
               /\ ~(ancestors[1].slug = "nextgov-categories")
            THEN Tail(ancestors) ELSE ancestors
    IN join(" > ", [i \in 1..Len(ancestors_list) |-> ancestors_list[i].name]
                       \o <<self.name>>)

\* __unicode__ of the class in use.
unicode(cls, st, self) ==
    IF self.unicode_name # "" THEN self.unicode_name
    ELSE IF cls = "CategoryBase" THEN CategoryBase_generate_unicode_name(st, self)
    ELSE Category_generate_unicode_name(st, self)

\* get_absolute_url with the top-level category left in the path.
UrlWithTopLevel(st, self) ==
    IF self.alternate_url # "" THEN self.alternate_url
    ELSE LET ancestors == get_ancestors(st, self, FALSE) \o <<self>>
         IN BasePath \o join("/", [i \in 1..Len(ancestors) |-> ancestors[i].slug]) \o "/"

\* Category.get_absolute_url
get_absolute_url(st, self) ==
    IF self.alternate_url # "" THEN self.alternate_url
    ELSE LET prefix == BasePath
             ancestors0 == get_ancestors(st, self, FALSE) \o <<self>>
             ancestors == IF Len(ancestors0) > 0 THEN Tail(ancestors0) ELSE ancestors0
         IN prefix \o join("/", [i \in 1..Len(ancestors) |-> ancestors[i].slug]) \o "/"

RECURSIVE all_categories_loop(_, _, _)
\* The loop of all_categories: tmp is a copy of the paths built so far, with
\* the category's name appended.
all_categories_loop(categories, paths, delimiter) ==
    IF categories = <<>> THEN paths
    ELSE LET tmp == paths \o <<Head(categories).name>>
         IN all_categories_loop(Tail(categories), Append(paths, join(delimiter, tmp)),
                                delimiter)

\* Inside the class the attribute self.__all_categories is stored under its
\* mangled name; hasattr is given the name as written.
Mangled == "_CategoryBase__all_categories"

NoAttrs == [a \in {} |-> <<>>]

\* CategoryBase.all_categories on an instance with the attributes attrs: the
\* value returned and the attributes afterwards.
all_categories(st, self, attrs, delimiter) ==
    IF "__all_categories" \in DOMAIN attrs
    THEN [value |-> attrs[Mangled], attrs |-> attrs]
    ELSE LET paths == all_categories_loop(get_ancestors(st, self, TRUE), <<>>, delimiter)
         IN [value |-> paths,
             attrs |-> [a \in DOMAIN attrs \cup {Mangled} |->
                           IF a = Mangled THEN paths ELSE attrs[a]]]

(* -------------------------- the admin validator ----------------------- *)

\* The slug check without the exclusion of the instance's own row.
SlugAmongAllRows(st, slug, parent, instance) ==
    IF parent # None /\ \E r \in Rows(st) : r.tree_id = st[parent].tree_id /\ r.slug = slug
    THEN "DuplicateSlug" ELSE "ok"

\* CategoryBaseAdminForm.clean, the slug: unique in the tree of the parent.
validateSlug(st, slug, parent, instance) ==
    LET this_tree_slugs ==
            IF parent = None THEN {}
            ELSE {c.slug : c \in {r \in Rows(st) : /\ r.tree_id = st[parent].tree_id
                                                   /\ r.id # instance.id}}
    IN IF slug \in this_tree_slugs THEN "DuplicateSlug" ELSE "ok"

\* The parent check against the children of the instance only.
ParentAmongChildren(st, parent, instance) ==
    IF parent = None \/ instance.id = None THEN "ok"
    ELSE IF st[parent].id = instance.id THEN "SelfParent"
    ELSE IF st[parent].id \in {c.id : c \in children(st, instance)} THEN "CyclicParent"
    ELSE "ok"

\* CategoryBaseAdminForm.clean, the parent: not the item, not a descendant.
validateParent(st, parent, instance) ==
    LET decendant_ids ==
            {r.id : r \in {get_descendants(st, instance)[i] :
                               i \in 1..Len(get_descendants(st, instance))}}
    IN IF parent = None \/ instance.id = None THEN "ok"
       ELSE IF st[parent].id = instance.id THEN "SelfParent"
       ELSE IF st[parent].id \in decendant_ids THEN "CyclicParent"
       ELSE "ok"

\* CategoryBaseAdminForm.clean: the first ValidationError raised, if any.
clean(st, slug, parent, instance) ==
    IF validateSlug(st, slug, parent, instance) # "ok"
    THEN validateSlug(st, slug, parent, instance)
    ELSE validateParent(st, parent, instance)

(* ------------------------- the backfill command ----------------------- *)

RECURSIVE handle_loop(_, _)

\* The loop of Command.handle without the test of alternate_url.
HandleEveryCategory(st, categories) ==
    IF categories = <<>> THEN <<>>
    ELSE LET category == Head(categories)
             ws == Category_save(st, [category EXCEPT
                       !.alternate_url = get_absolute_url(st, category)])
         IN ws \o handle_loop(PersistAll(st, ws), Tail(categories))

\* The loop of Command.handle over the categories as they were read.
handle_loop(st, categories) ==
    IF categories = <<>> THEN <<>>
    ELSE LET category == Head(categories)
             ws == IF category.alternate_url = ""
                   THEN Category_save(st, [category EXCEPT
                            !.alternate_url = get_absolute_url(st, category)])
                   ELSE <<>>
         IN ws \o handle_loop(PersistAll(st, ws), Tail(categories))

\* Command.handle, given the one row whose slug is 'categories'.
handle(st, root) ==
    LET root_category == [root EXCEPT !.lft = @ + 1, !.rght = @ - 1]
        categories == OrderBy({r \in Rows(st) : /\ r.lft <= root_category.rght
                                                /\ r.lft >= root_category.lft
                                                /\ r.tree_id = root_category.tree_id})
    IN handle_loop(st, categories)

(* ----------------------------- operations ----------------------------- *)

Idle ==
    [kind |-> "none", node |-> None, sel |-> {}, active |-> TRUE, pre |-> <<>>,
     writes |-> <<>>, applied |-> 0, status |-> "idle"]

NoResult == [fn |-> "none"]

\* An operation begins: its writes are fixed; one that writes nothing is over.
Begin(kind, node, sel, active, ws) ==
    /\ op' = [kind |-> kind, node |-> node, sel |-> sel, active |-> active,
              pre |-> store, writes |-> ws, applied |-> 0,
              status |-> IF ws = <<>> THEN "done" ELSE "running"]
    /\ UNCHANGED <<store, impl, result>>

\* A new instance: Category(parent = ..., name = ..., ...); active is True
\* unless the caller sets it.
NewInstance(parent, name, slug, active, alternate_url, unicode_name) ==
    [id |-> None, parent |-> parent, name |-> name, slug |-> slug, active |-> active,
     alternate_url |-> alternate_url, unicode_name |-> unicode_name,
     tree_id |-> 0, lft |-> 0, rght |-> 0]

\* The table refuses a row that breaks unique_together.
Unique(cls, st, inst) ==
    LET slug == IF inst.slug = "" THEN slugify(inst.name) ELSE inst.slug
    IN /\ inst.parent # None =>
              \A r \in Rows(st) : ~(r.parent = inst.parent /\ r.name = inst.name)
       /\ (cls = "CategoryBase" /\ inst.parent # None) =>
              \A r \in Rows(st) :
                  ~(r.tree_id = st[inst.parent].tree_id /\ r.slug = slug)

\* The save of a new category under a parent (None: a new tree).
Create(parent, name, slug, active, alternate_url, unicode_name) ==
    LET inst == NewInstance(parent, name, slug, active, alternate_url, unicode_name)
    IN /\ op = Idle
       /\ Cardinality(DOMAIN store) < MaxNodes
       /\ parent \in {None} \cup DOMAIN store
       /\ Unique(impl, store, inst)
       /\ Begin("create", NewId(store), {}, active, save(impl, store, inst))

\* The save of a stored category with its active flag set.
Save(n, active) ==
    /\ op = Idle
    /\ n \in DOMAIN store
    /\ Begin("save", n, {}, active, save(impl, store, [store[n] EXCEPT !.active = active]))

\* The admin action "Deactivate selected categories and their children".
Deactivate(sel) ==
    /\ op = Idle
    /\ sel # {} /\ sel \subseteq DOMAIN store
    /\ Begin("deactivate", None, sel, FALSE,
             deactivate(impl, store, OrderBy({store[i] : i \in sel})))

\* The admin action "Activate selected categories and their children".
Activate(sel) ==
    /\ op = Idle
    /\ sel # {} /\ sel \subseteq DOMAIN store
    /\ Begin("activate", None, sel, TRUE,
             activate(impl, store, OrderBy({store[i] : i \in sel})))

\* A call that reads the table and returns a value.
Query(r) ==
    /\ op = Idle
    /\ op' = [Idle EXCEPT !.kind = "query", !.pre = store, !.status = "done"]
    /\ result' = r
    /\ UNCHANGED <<store, impl>>

\* unicode(category)
Unicode(n) ==
    /\ n \in DOMAIN store
    /\ Query([fn |-> "unicode", node |-> n, value |-> unicode(impl, store, store[n])])

\* category.get_absolute_url()
GetAbsoluteUrl(n) ==
    /\ n \in DOMAIN store
    /\ impl = "Category"
    /\ Query([fn |-> "get_absolute_url", node |-> n,
              value |-> get_absolute_url(store, store[n])])

\* category.all_categories(d1) and then, on the same instance,
\* category.all_categories(d2).
AllCategories(n, d1, d2) ==
    /\ n \in DOMAIN store
    /\ impl = "CategoryBase"
    /\ LET first == all_categories(store, store[n], NoAttrs, d1)
           second == all_categories(store, store[n], first.attrs, d2)
       IN Query([fn |-> "all_categories", node |-> n,
                 delimiter |-> <<d1, d2>>, value |-> <<first.value, second.value>>])

\* The admin form of a stored category (x) or of a new one (x = None) is
\* cleaned with a slug and a parent.
Clean(slug, parent, x) ==
    /\ parent \in {None} \cup DOMAIN store
    /\ x \in {None} \cup DOMAIN store
    /\ LET instance == IF x = None THEN NewInstance(parent, "A", slug, TRUE, "", "")
                       ELSE store[x]
       IN Query([fn |-> "clean", slug |-> slug, parent |-> parent, instance |-> x,
                 value |-> clean(store, slug, parent, instance)])

\* manage.py set_alternate_url: objects.get(slug = 'categories') raises unless
\* exactly one row has the slug.
Backfill ==
    /\ op = Idle
    /\ impl = "Category"
    /\ LET roots == {r \in Rows(store) : r.slug = "categories"}
       IN IF Cardinality(roots) = 1
          THEN LET root == CHOOSE r \in roots : TRUE
               IN Begin("backfill", root.id, {}, TRUE, handle(store, root))
          ELSE /\ op' = [Idle EXCEPT !.kind = "backfill", !.pre = store,
                                     !.status = "failed"]
               /\ UNCHANGED <<store, impl, result>>

\* The next write of the running operation reaches the table.
Write ==
    /\ op.status = "running"
    /\ store' = Persist(store, op.writes[op.applied + 1])
    /\ op' = [op EXCEPT !.applied = @ + 1,
                        !.status = IF op.applied + 1 = Len(op.writes) THEN "done"
                                   ELSE "running"]
    /\ UNCHANGED <<impl, result>>

\* The next write fails: the StoreError propagates and the operation ends.
StoreError ==
    /\ op.status = "running"
    /\ op' = [op EXCEPT !.status = "failed"]
    /\ UNCHANGED <<store, impl, result>>

\* The call is over, with or without an error: control is back at the caller.
Return ==
    /\ op.status \in {"done", "failed"}
    /\ op' = Idle
    /\ result' = NoResult
    /\ UNCHANGED <<store, impl>>

Ids == 1..(MaxNodes + 1)

Init ==
    /\ store = <<>>
    /\ impl \in Classes
    /\ op = Idle
    /\ result = NoResult

\* The first name, in collation order, that no category of the tree of the
\* parent has (in a new tree: the first name).
FirstUnusedName(st, parent, name) ==
    LET used == IF parent = None THEN {}
                ELSE {r.name : r \in {q \in Rows(st) : q.tree_id = st[parent].tree_id}}
    IN /\ name \notin used
       /\ \A other \in Names \ used : NameRank(name) <= NameRank(other)

\* The cascade is indifferent to the names: a new category takes the first
\* name its tree does not have.
Next ==
    \/ \E p \in {None} \cup Ids, name \in Names :
           /\ p \in {None} \cup DOMAIN store
           /\ FirstUnusedName(store, p, name)
           /\ Create(p, name, "", TRUE, "", "")
    \/ \E n \in Ids, a \in BOOLEAN : Save(n, a)
    \/ \E sel \in SUBSET Ids : Deactivate(sel)
    \/ \E sel \in SUBSET Ids : Activate(sel)
    \/ Write
    \/ StoreError
    \/ Return

Spec == Init /\ [][Next]_vars

\* The admin form over trees of categories named "A" and "B".
NextForm ==
    \/ \E p \in {None} \cup Ids, name \in Names : Create(p, name, "", TRUE, "", "")
    \/ \E slug \in {"a", "b"}, p \in {None} \cup Ids, x \in {None} \cup Ids :
           Clean(slug, p, x)
    \/ Write
    \/ Return

SpecForm == Init /\ [][NextForm]_vars

\* The slug and the unicode_name a category of the display trees is created with.
NameFixtures ==
    {<<"", "">>, <<"magazine", "">>, <<"nextgov-categories", "">>, <<"", "Custom">>}

\* The display names over trees whose categories have a slug of their own or
\* that of their name, and a unicode_name or none.
NextName ==
    \/ \E p \in {None} \cup Ids, name \in {"A", "B"}, f \in NameFixtures :
           Create(p, name, f[1], TRUE, "", f[2])
    \/ \E n \in Ids : Unicode(n)
    \/ \E n \in Ids, d1, d2 \in {"::", "/"} : AllCategories(n, d1, d2)
    \/ Write
    \/ Return

SpecName == Init /\ [][NextName]_vars

\* What a category of the URL trees is created with.
UrlFixtures ==
    {<<"A", "categories", "">>} \cup
    {<<name, "", url>> : name \in {"A", "B"}, url \in {"", "http://alt/"}}

\* The URLs and the backfill command over trees of Category rows, active or not.
NextUrl ==
    \/ \E p \in {None} \cup Ids, f \in UrlFixtures, a \in BOOLEAN :
           Create(p, f[1], f[2], a, f[3], "")
    \/ \E n \in Ids : GetAbsoluteUrl(n)
    \/ Backfill
    \/ Write
    \/ StoreError
    \/ Return

\* get_absolute_url and the command are Category's.
InitUrl ==
    /\ store = <<>>
    /\ impl = "Category"
    /\ op = Idle
    /\ result = NoResult

SpecUrl == InitUrl /\ [][NextUrl]_vars

(* ----------------------- the tree, by its parents --------------------- *)

RECURSIVE IsUnder(_, _, _)
\* d is a descendant of n: n is on the chain of d's parents.
IsUnder(st, d, n) ==
    /\ st[d].parent # None
    /\ \/ st[d].parent = n
       \/ IsUnder(st, st[d].parent, n)

Descendants(st, n) == {d \in DOMAIN st : IsUnder(st, d, n)}

\* No inactive node has an active descendant.
CascadeInv(st) ==
    \A n \in DOMAIN st : ~st[n].active => \A d \in Descendants(st, n) : ~st[d].active

(* ------------------------------- claims ------------------------------- *)

\* C1: when save(N) with N.active = false has run to completion, every
\* descendant of N, at every depth, is inactive in the table, whatever it
\* was before.
C1_DeactivationReachesAllDescendants ==
    (op.kind = "save" /\ op.status = "done" /\ ~op.active)
        => \A d \in Descendants(store, op.node) : ~store[d].active

\* A grandchild that was active under a child that was already inactive.
C1_Witness ==
    /\ op.kind = "save" /\ op.status = "done" /\ ~op.active
    /\ \E c, g \in DOMAIN store :
           /\ store[c].parent = op.node /\ store[g].parent = c
           /\ ~op.pre[c].active /\ op.pre[g].active

\* C2: a completed save(N) with N.active = true leaves the active flag of
\* every descendant of N as it was, in both classes.
C2_ActivationNeverCascades ==
    (op.kind = "save" /\ op.status = "done" /\ op.active)
        => \A d \in Descendants(store, op.node) : store[d].active = op.pre[d].active

\* An operation activates or creates only under no parent or an active one
\* (a selected parent is activated before its selected child).
Guarded ==
    LET open(n) == \/ store[n].parent = None
                   \/ op.pre[store[n].parent].active
    IN /\ op.kind = "create" => open(op.node)
       /\ (op.kind = "save" /\ op.active) => open(op.node)
       /\ op.kind = "activate" =>
              \A n \in op.sel : open(n) \/ store[n].parent \in op.sel

\* C3 as stated: every completed operation (a save with either flag, a
\* creation, an admin action) on a table in which no inactive node has an
\* active descendant leaves such a table, so that from the empty table the
\* property holds after any sequence of completed operations.
C3_EveryOperationKeepsCascade ==
    (op.status = "done" /\ CascadeInv(op.pre)) => CascadeInv(store)

\* C3 as amended: the same, for the operations that activate or create a
\* node only under no parent or under an active parent.
C3_GuardedOperationKeepsCascade ==
    (op.status = "done" /\ CascadeInv(op.pre) /\ Guarded) => CascadeInv(store)

\* An inactive node with descendants, under an active parent, is activated.
C3_Witness ==
    /\ op.status = "done" /\ CascadeInv(op.pre) /\ Guarded
    /\ op.kind \in {"save", "activate"} /\ op.active
    /\ \E n \in DOMAIN op.pre :
           /\ n = op.node \/ n \in op.sel
           /\ ~op.pre[n].active /\ op.pre[n].parent # None
           /\ Descendants(op.pre, n) # {}

\* C10: within a deactivating save(N), at every moment, also after a store
\* error, a descendant of N differs from what it was before the call only
\* if the row of N is already written as inactive.
C10_OwnRowBeforeCascade ==
    (op.kind = "save" /\ ~op.active
        /\ \E d \in Descendants(store, op.node) : store[d] # op.pre[d])
        => ~store[op.node].active

\* A store error in the middle of the cascade of a node that was active.
C10_Witness ==
    /\ op.kind = "save" /\ ~op.active /\ op.status = "failed"
    /\ op.pre[op.node].active
    /\ \E d \in Descendants(store, op.node) : store[d] # op.pre[d]
    /\ \E d \in Descendants(store, op.node) : store[d].active

(* --------------------- the claims on the validator -------------------- *)

RECURSIVE ChainTo(_, _)
\* The ids from the root of n down to n, by the parents.
ChainTo(st, n) ==
    IF st[n].parent = None THEN <<n>> ELSE Append(ChainTo(st, st[n].parent), n)

SameTree(st, m, n) == ChainTo(st, m)[1] = ChainTo(st, n)[1]

\* C4: once the slug has passed, clean on a stored instance X and a parent P
\* raises SelfParent when P is X, CyclicParent when P is a descendant of X at
\* any depth, and nothing for any other P; it raises nothing when there is no
\* parent or X is new; and it writes nothing.
C4_ParentValidation ==
    (result.fn = "clean" /\ result.value # "DuplicateSlug") =>
        /\ store = op.pre
        /\ result.value =
               IF result.parent = None \/ result.instance = None THEN "ok"
               ELSE IF result.parent = result.instance THEN "SelfParent"
               ELSE IF IsUnder(store, result.parent, result.instance) THEN "CyclicParent"
               ELSE "ok"

\* The candidate parent is a grandchild of the instance.
C4_Witness ==
    /\ result.fn = "clean" /\ result.value = "CyclicParent"
    /\ result.instance # None /\ result.parent # None
    /\ store[result.parent].parent # result.instance
    /\ IsUnder(store, result.parent, result.instance)

\* C5: clean raises DuplicateSlug exactly when there is a parent and some row
\* other than the instance's, in the tree of the parent, has the slug.
C5_DuplicateSlug ==
    result.fn = "clean" =>
        (result.value = "DuplicateSlug" <=>
            /\ result.parent # None
            /\ \E n \in DOMAIN store :
                   /\ n # result.instance
                   /\ SameTree(store, n, result.parent)
                   /\ store[n].slug = result.slug)

\* The slug is the instance's own and that of a row of another tree; and a
\* root with that slug is accepted although a tree-mate has it.
C5_Witness ==
    /\ result.fn = "clean" /\ result.value = "ok"
    /\ result.instance # None /\ result.parent # None
    /\ store[result.instance].slug = result.slug
    /\ SameTree(store, result.instance, result.parent)
    /\ \E n \in DOMAIN store : /\ ~SameTree(store, n, result.parent)
                               /\ store[n].slug = result.slug

(* ----------------- the claims on the breadcrumb builder --------------- *)

NamesOf(st, ids) == [i \in 1..Len(ids) |-> st[ids[i]].name]

SlugsOf(st, ids) == [i \in 1..Len(ids) |-> st[ids[i]].slug]

Front(seq) == SubSeq(seq, 1, Len(seq) - 1)

\* The display name as the claim has it.
DisplayName(st, n) ==
    IF st[n].unicode_name # "" THEN st[n].unicode_name
    ELSE LET ancestors == Front(ChainTo(st, n))
             kept == IF /\ ancestors # <<>>
                        /\ st[ancestors[1]].slug \notin {"magazine", "nextgov-categories"}
                     THEN Tail(ancestors) ELSE ancestors
         IN join(" > ", NamesOf(st, kept) \o <<st[n].name>>)

\* C6: unicode(node) is unicode_name when that is not empty, and otherwise
\* the names of the ancestors, root first, and of the node, joined by " > ",
\* without the root's name unless the root's slug is "magazine" or
\* "nextgov-categories"; in both classes.
C6_DisplayName ==
    result.fn = "unicode" => result.value = DisplayName(store, result.node)

\* The URL as the claim has it.
AbsoluteUrl(st, n) ==
    IF st[n].alternate_url # "" THEN st[n].alternate_url
    ELSE BasePath \o join("/", SlugsOf(st, Tail(ChainTo(st, n)))) \o "/"

\* C7: get_absolute_url is alternate_url when that is not empty, and
\* otherwise the base path, the slugs of the chain from the root to the node
\* without its first element, joined by "/", and "/"; for a root that is the
\* base path and "/".
C7_AbsoluteUrl ==
    result.fn = "get_absolute_url" =>
        /\ result.value = AbsoluteUrl(store, result.node)
        /\ (store[result.node].parent = None /\ store[result.node].alternate_url = "")
               => result.value = BasePath \o "/"

\* The URL of a node two levels under its root is computed from the tree.
C7_Witness ==
    /\ result.fn = "get_absolute_url"
    /\ store[result.node].alternate_url = ""
    /\ Len(ChainTo(store, result.node)) = 3
    /\ \E n \in DOMAIN store : store[n].alternate_url # ""

\* The paths as the claim has them: path[i] is the join of names[1..i].
CategoryPaths(st, n, delimiter) ==
    LET names == NamesOf(st, ChainTo(st, n))
    IN [i \in 1..Len(names) |-> join(delimiter, SubSeq(names, 1, i))]

\* C8: all_categories(delimiter) has one path for each category of the chain
\* from the root to the node, the i-th being the join of the first i names,
\* at every depth and on every call.
C8_AllCategoryPaths ==
    result.fn = "all_categories" =>
        \A k \in 1..2 :
            result.value[k] = CategoryPaths(store, result.node, result.delimiter[k])

(* ------------------- the claim on the backfill command ---------------- *)

\* C9: after a completed run, a category under the root 'categories' whose
\* alternate_url was not empty has kept it, one whose alternate_url was empty
\* has its URL in it, and a second run would write nothing.
C9_BackfillOnce ==
    (op.kind = "backfill" /\ op.status = "done") =>
        /\ \A c \in Descendants(store, op.node) :
               store[c].alternate_url =
                   IF op.pre[c].alternate_url # "" THEN op.pre[c].alternate_url
                   ELSE AbsoluteUrl(op.pre, c)
        /\ \A c \in Descendants(store, op.node) : store[c].alternate_url # ""
        /\ handle(store, store[op.node]) = <<>>

\* A run that filled the URL of a grandchild of the root and met a category
\* that had one.
C9_Witness ==
    /\ op.kind = "backfill" /\ op.status = "done"
    /\ \E c, g \in Descendants(store, op.node) :
           /\ store[g].parent = c
           /\ op.pre[g].alternate_url = "" /\ op.pre[c].alternate_url # ""

(* -------------------- the claim on the cascade's writes --------------- *)

\* The number of times the row d is saved by the writes ws.
SavesOf(ws, d) ==
    Cardinality({i \in 1..Len(ws) : ws[i].kind = "save" /\ ws[i].inst.id = d})

\* C11: in a completed save(N) with N.active = false, the nested saves
\* counted, a descendant that was active before the call is written exactly
\* once and a descendant that was inactive is not written, at every depth.
C11_OneWritePerChangedDescendant ==
    (op.kind = "save" /\ op.status = "done" /\ ~op.active) =>
        \A d \in Descendants(store, op.node) :
            SavesOf(op.writes, d) = IF op.pre[d].active THEN 1 ELSE 0

====
